---- MODULE Spec2Model ----
(***************************************************************************)
(* BLAKE-256 / BLAKE-224 streaming digest (package blake256).              *)
(*                                                                         *)
(* A uint32 is a pair <<hi, lo>> of 16-bit halves and a uint64 a tuple of  *)
(* four 16-bit limbs, most significant first, so that every addition,      *)
(* subtraction, shift and rotation keeps the width the Go code has.        *)
(* A byte is a number in 0..255, a slice a sequence of bytes.              *)
(***************************************************************************)
EXTENDS Integers, Sequences, FiniteSets, TLC

----------------------------------------------------------------------------
(* Machine arithmetic *)

(* The element of a singleton set.  An intermediate value that later steps
   use several times is bound once, as x in {f(x) : x \in {e}}. *)
Only(S) == CHOOSE x \in S : TRUE

Min(a, b) == IF a < b THEN a ELSE b

Pow2(k) == 2 ^ k

RECURSIVE XorBits(_, _, _)
XorBits(a, b, n) ==
  IF n = 0 THEN 0
  ELSE ((a + b) % 2) + 2 * XorBits(a \div 2, b \div 2, n - 1)

Xor4 == [a \in 0..15 |-> [b \in 0..15 |-> XorBits(a, b, 4)]]

Xor8 == [a \in 0..255 |-> [b \in 0..255 |->
           16 * Xor4[a \div 16][b \div 16] + Xor4[a % 16][b % 16]]]

Xor16(a, b) == 256 * Xor8[a \div 256][b \div 256] + Xor8[a % 256][b % 256]

(* ^ on uint32 *)
XorW(u, v) == <<Xor16(u[1], v[1]), Xor16(u[2], v[2])>>

(* + on uint32, modulo 2^32 *)
AddW(u, v) ==
  LET lo == u[2] + v[2]
      hi == u[1] + v[1] + (lo \div 65536)
  IN  <<hi % 65536, lo % 65536>>

(* w<<(32-k) | w>>k on uint32, 0 < k < 32 *)
RotR(w, k) ==
  LET u == IF k >= 16 THEN <<w[2], w[1]>> ELSE w
      r == k % 16
      p == Pow2(r)
      q == Pow2(16 - r)
  IN  IF r = 0 THEN u
      ELSE <<(u[1] \div p) + (u[2] % p) * q, (u[2] \div p) + (u[1] % p) * q>>

(* uint32(p[i])<<24 | uint32(p[i+1])<<16 | uint32(p[i+2])<<8 | uint32(p[i+3]),
   i counted from 0 as in the source *)
BE32(p, i) == <<256 * p[i + 1] + p[i + 2], 256 * p[i + 3] + p[i + 4]>>

(* byte(s >> 24), byte(s >> 16), byte(s >> 8), byte(s) *)
WordBytes(s) == <<s[1] \div 256, s[1] % 256, s[2] \div 256, s[2] % 256>>

Zero64 == <<0, 0, 0, 0>>

(* t + k on uint64, modulo 2^64, for a small k of either sign: the limbs
   carry (or borrow) with floor division, so a negative result wraps *)
Add64(t, k) ==
  LET l0 == t[4] + k
      l1 == t[3] + (l0 \div 65536)
      l2 == t[2] + (l1 \div 65536)
      l3 == t[1] + (l2 \div 65536)
  IN  <<l3 % 65536, l2 % 65536, l1 % 65536, l0 % 65536>>

(* t - k on uint64, modulo 2^64 *)
Sub64(t, k) == Add64(t, 0 - k)

(* uint32(t) and uint32(t >> 32) *)
Lo32(t) == <<t[3], t[4]>>
Hi32(t) == <<t[1], t[2]>>

(* byte(l >> 56), ..., byte(l) *)
BE64(l) ==
  <<l[1] \div 256, l[1] % 256, l[2] \div 256, l[2] % 256,
    l[3] \div 256, l[3] % 256, l[4] \div 256, l[4] % 256>>

----------------------------------------------------------------------------
(* Package constants *)

BlockSize == 64
Size == 32
Size224 == 28

iv256 ==
  <<<<27145, 58983>>, <<47975, 44677>>, <<15470, 62322>>, <<42319, 62778>>,
    <<20750, 21119>>, <<39685, 26764>>, <<8067, 55723>>, <<23520, 52505>>>>

iv224 ==
  <<<<49413, 40664>>, <<13948, 54535>>, <<12400, 56599>>, <<63246, 22841>>,
    <<65472, 2865>>, <<26712, 5393>>, <<25849, 36775>>, <<48890, 20388>>>>

(* n zero bytes *)
Zeros(n) == SubSeq(<<0, 0, 0, 0, 0, 0, 0, 0, 0, 0, 0, 0, 0, 0, 0, 0,
                     0, 0, 0, 0, 0, 0, 0, 0, 0, 0, 0, 0, 0, 0, 0, 0,
                     0, 0, 0, 0, 0, 0, 0, 0, 0, 0, 0, 0, 0, 0, 0, 0,
                     0, 0, 0, 0, 0, 0, 0, 0, 0, 0, 0, 0, 0, 0, 0, 0>>, 1, n)

pad == <<128>> \o Zeros(63)

cst ==
  <<<<9279, 27272>>, <<34211, 2259>>, <<4889, 35374>>, <<880, 29508>>,
    <<41993, 14370>>, <<10655, 12752>>, <<2094, 64152>>, <<60494, 27785>>,
    <<17704, 8678>>, <<14544, 4983>>, <<48724, 26319>>, <<13545, 3180>>,
    <<49324, 10679>>, <<51580, 20701>>, <<16260, 54709>>, <<46407, 2327>>>>

(* The unrolled rounds of block, one row per group of seven statements
     va += m[i] ^ cst_j;  va += vb;  vd ^= va;  vd = vd<<(32-r1) | vd>>r1;
     vc += vd;  vb ^= vc;  vb = vb<<(32-r2) | vb>>r2
   written <<a, b, c, d,  i, j,  r1, r2>>, in source order. *)
Rounds ==
  <<
  (* Round 1 *)
  <<0,4,8,12, 0,1, 16,12>>, <<1,5,9,13, 2,3, 16,12>>, <<2,6,10,14, 4,5, 16,12>>, <<3,7,11,15, 6,7, 16,12>>,
  <<2,6,10,14, 5,4, 8,7>>, <<3,7,11,15, 7,6, 8,7>>, <<1,5,9,13, 3,2, 8,7>>, <<0,4,8,12, 1,0, 8,7>>,
  <<0,5,10,15, 8,9, 16,12>>, <<1,6,11,12, 10,11, 16,12>>, <<2,7,8,13, 12,13, 16,12>>, <<3,4,9,14, 14,15, 16,12>>,
  <<2,7,8,13, 13,12, 8,7>>, <<3,4,9,14, 15,14, 8,7>>, <<1,6,11,12, 11,10, 8,7>>, <<0,5,10,15, 9,8, 8,7>>,
  (* Round 2 *)
  <<0,4,8,12, 14,10, 16,12>>, <<1,5,9,13, 4,8, 16,12>>, <<2,6,10,14, 9,15, 16,12>>, <<3,7,11,15, 13,6, 16,12>>,
  <<2,6,10,14, 15,9, 8,7>>, <<3,7,11,15, 6,13, 8,7>>, <<1,5,9,13, 8,4, 8,7>>, <<0,4,8,12, 10,14, 8,7>>,
  <<0,5,10,15, 1,12, 16,12>>, <<1,6,11,12, 0,2, 16,12>>, <<2,7,8,13, 11,7, 16,12>>, <<3,4,9,14, 5,3, 16,12>>,
  <<2,7,8,13, 7,11, 8,7>>, <<3,4,9,14, 3,5, 8,7>>, <<1,6,11,12, 2,0, 8,7>>, <<0,5,10,15, 12,1, 8,7>>,
  (* Round 3 *)
  <<0,4,8,12, 11,8, 16,12>>, <<1,5,9,13, 12,0, 16,12>>, <<2,6,10,14, 5,2, 16,12>>, <<3,7,11,15, 15,13, 16,12>>,
  <<2,6,10,14, 2,5, 8,7>>, <<3,7,11,15, 13,15, 8,7>>, <<1,5,9,13, 0,12, 8,7>>, <<0,4,8,12, 8,11, 8,7>>,
  <<0,5,10,15, 10,14, 16,12>>, <<1,6,11,12, 3,6, 16,12>>, <<2,7,8,13, 7,1, 16,12>>, <<3,4,9,14, 9,4, 16,12>>,
  <<2,7,8,13, 1,7, 8,7>>, <<3,4,9,14, 4,9, 8,7>>, <<1,6,11,12, 6,3, 8,7>>, <<0,5,10,15, 14,10, 8,7>>,
  (* Round 4 *)
  <<0,4,8,12, 7,9, 16,12>>, <<1,5,9,13, 3,1, 16,12>>, <<2,6,10,14, 13,12, 16,12>>, <<3,7,11,15, 11,14, 16,12>>,
  <<2,6,10,14, 12,13, 8,7>>, <<3,7,11,15, 14,11, 8,7>>, <<1,5,9,13, 1,3, 8,7>>, <<0,4,8,12, 9,7, 8,7>>,
  <<0,5,10,15, 2,6, 16,12>>, <<1,6,11,12, 5,10, 16,12>>, <<2,7,8,13, 4,0, 16,12>>, <<3,4,9,14, 15,8, 16,12>>,
  <<2,7,8,13, 0,4, 8,7>>, <<3,4,9,14, 8,15, 8,7>>, <<1,6,11,12, 10,5, 8,7>>, <<0,5,10,15, 6,2, 8,7>>,
  (* Round 5 *)
  <<0,4,8,12, 9,0, 16,12>>, <<1,5,9,13, 5,7, 16,12>>, <<2,6,10,14, 2,4, 16,12>>, <<3,7,11,15, 10,15, 16,12>>,
  <<2,6,10,14, 4,2, 8,7>>, <<3,7,11,15, 15,10, 8,7>>, <<1,5,9,13, 7,5, 8,7>>, <<0,4,8,12, 0,9, 8,7>>,
  <<0,5,10,15, 14,1, 16,12>>, <<1,6,11,12, 11,12, 16,12>>, <<2,7,8,13, 6,8, 16,12>>, <<3,4,9,14, 3,13, 16,12>>,
  <<2,7,8,13, 8,6, 8,7>>, <<3,4,9,14, 13,3, 8,7>>, <<1,6,11,12, 12,11, 8,7>>, <<0,5,10,15, 1,14, 8,7>>,
  (* Round 6 *)
  <<0,4,8,12, 2,12, 16,12>>, <<1,5,9,13, 6,10, 16,12>>, <<2,6,10,14, 0,11, 16,12>>, <<3,7,11,15, 8,3, 16,12>>,
  <<2,6,10,14, 11,0, 8,7>>, <<3,7,11,15, 3,8, 8,7>>, <<1,5,9,13, 10,6, 8,7>>, <<0,4,8,12, 12,2, 8,7>>,
  <<0,5,10,15, 4,13, 16,12>>, <<1,6,11,12, 7,5, 16,12>>, <<2,7,8,13, 15,14, 16,12>>, <<3,4,9,14, 1,9, 16,12>>,
  <<2,7,8,13, 14,15, 8,7>>, <<3,4,9,14, 9,1, 8,7>>, <<1,6,11,12, 5,7, 8,7>>, <<0,5,10,15, 13,4, 8,7>>,
  (* Round 7 *)
  <<0,4,8,12, 12,5, 16,12>>, <<1,5,9,13, 1,15, 16,12>>, <<2,6,10,14, 14,13, 16,12>>, <<3,7,11,15, 4,10, 16,12>>,
  <<2,6,10,14, 13,14, 8,7>>, <<3,7,11,15, 10,4, 8,7>>, <<1,5,9,13, 15,1, 8,7>>, <<0,4,8,12, 5,12, 8,7>>,
  <<0,5,10,15, 0,7, 16,12>>, <<1,6,11,12, 6,3, 16,12>>, <<2,7,8,13, 9,2, 16,12>>, <<3,4,9,14, 8,11, 16,12>>,
  <<2,7,8,13, 2,9, 8,7>>, <<3,4,9,14, 11,8, 8,7>>, <<1,6,11,12, 3,6, 8,7>>, <<0,5,10,15, 7,0, 8,7>>,
  (* Round 8 *)
  <<0,4,8,12, 13,11, 16,12>>, <<1,5,9,13, 7,14, 16,12>>, <<2,6,10,14, 12,1, 16,12>>, <<3,7,11,15, 3,9, 16,12>>,
  <<2,6,10,14, 1,12, 8,7>>, <<3,7,11,15, 9,3, 8,7>>, <<1,5,9,13, 14,7, 8,7>>, <<0,4,8,12, 11,13, 8,7>>,
  <<0,5,10,15, 5,0, 16,12>>, <<1,6,11,12, 15,4, 16,12>>, <<2,7,8,13, 8,6, 16,12>>, <<3,4,9,14, 2,10, 16,12>>,
  <<2,7,8,13, 6,8, 8,7>>, <<3,4,9,14, 10,2, 8,7>>, <<1,6,11,12, 4,15, 8,7>>, <<0,5,10,15, 0,5, 8,7>>,
  (* Round 9 *)
  <<0,4,8,12, 6,15, 16,12>>, <<1,5,9,13, 14,9, 16,12>>, <<2,6,10,14, 11,3, 16,12>>, <<3,7,11,15, 0,8, 16,12>>,
  <<2,6,10,14, 3,11, 8,7>>, <<3,7,11,15, 8,0, 8,7>>, <<1,5,9,13, 9,14, 8,7>>, <<0,4,8,12, 15,6, 8,7>>,
  <<0,5,10,15, 12,2, 16,12>>, <<1,6,11,12, 13,7, 16,12>>, <<2,7,8,13, 1,4, 16,12>>, <<3,4,9,14, 10,5, 16,12>>,
  <<2,7,8,13, 4,1, 8,7>>, <<3,4,9,14, 5,10, 8,7>>, <<1,6,11,12, 7,13, 8,7>>, <<0,5,10,15, 2,12, 8,7>>,
  (* Round 10 *)
  <<0,4,8,12, 10,2, 16,12>>, <<1,5,9,13, 8,4, 16,12>>, <<2,6,10,14, 7,6, 16,12>>, <<3,7,11,15, 1,5, 16,12>>,
  <<2,6,10,14, 6,7, 8,7>>, <<3,7,11,15, 5,1, 8,7>>, <<1,5,9,13, 4,8, 8,7>>, <<0,4,8,12, 2,10, 8,7>>,
  <<0,5,10,15, 15,11, 16,12>>, <<1,6,11,12, 9,14, 16,12>>, <<2,7,8,13, 3,12, 16,12>>, <<3,4,9,14, 13,0, 16,12>>,
  <<2,7,8,13, 12,3, 8,7>>, <<3,4,9,14, 0,13, 8,7>>, <<1,6,11,12, 14,9, 8,7>>, <<0,5,10,15, 11,15, 8,7>>,
  (* Round 11 *)
  <<0,4,8,12, 0,1, 16,12>>, <<1,5,9,13, 2,3, 16,12>>, <<2,6,10,14, 4,5, 16,12>>, <<3,7,11,15, 6,7, 16,12>>,
  <<2,6,10,14, 5,4, 8,7>>, <<3,7,11,15, 7,6, 8,7>>, <<1,5,9,13, 3,2, 8,7>>, <<0,4,8,12, 1,0, 8,7>>,
  <<0,5,10,15, 8,9, 16,12>>, <<1,6,11,12, 10,11, 16,12>>, <<2,7,8,13, 12,13, 16,12>>, <<3,4,9,14, 14,15, 16,12>>,
  <<2,7,8,13, 13,12, 8,7>>, <<3,4,9,14, 15,14, 8,7>>, <<1,6,11,12, 11,10, 8,7>>, <<0,5,10,15, 9,8, 8,7>>,
  (* Round 12 *)
  <<0,4,8,12, 14,10, 16,12>>, <<1,5,9,13, 4,8, 16,12>>, <<2,6,10,14, 9,15, 16,12>>, <<3,7,11,15, 13,6, 16,12>>,
  <<2,6,10,14, 15,9, 8,7>>, <<3,7,11,15, 6,13, 8,7>>, <<1,5,9,13, 8,4, 8,7>>, <<0,4,8,12, 10,14, 8,7>>,
  <<0,5,10,15, 1,12, 16,12>>, <<1,6,11,12, 0,2, 16,12>>, <<2,7,8,13, 11,7, 16,12>>, <<3,4,9,14, 5,3, 16,12>>,
  <<2,7,8,13, 7,11, 8,7>>, <<3,4,9,14, 3,5, 8,7>>, <<1,6,11,12, 2,0, 8,7>>, <<0,5,10,15, 12,1, 8,7>>,
  (* Round 13 *)
  <<0,4,8,12, 11,8, 16,12>>, <<1,5,9,13, 12,0, 16,12>>, <<2,6,10,14, 5,2, 16,12>>, <<3,7,11,15, 15,13, 16,12>>,
  <<2,6,10,14, 2,5, 8,7>>, <<3,7,11,15, 13,15, 8,7>>, <<1,5,9,13, 0,12, 8,7>>, <<0,4,8,12, 8,11, 8,7>>,
  <<0,5,10,15, 10,14, 16,12>>, <<1,6,11,12, 3,6, 16,12>>, <<2,7,8,13, 7,1, 16,12>>, <<3,4,9,14, 9,4, 16,12>>,
  <<2,7,8,13, 1,7, 8,7>>, <<3,4,9,14, 4,9, 8,7>>, <<1,6,11,12, 6,3, 8,7>>, <<0,5,10,15, 14,10, 8,7>>,
  (* Round 14 *)
  <<0,4,8,12, 7,9, 16,12>>, <<1,5,9,13, 3,1, 16,12>>, <<2,6,10,14, 13,12, 16,12>>, <<3,7,11,15, 11,14, 16,12>>,
  <<2,6,10,14, 12,13, 8,7>>, <<3,7,11,15, 14,11, 8,7>>, <<1,5,9,13, 1,3, 8,7>>, <<0,4,8,12, 9,7, 8,7>>,
  <<0,5,10,15, 2,6, 16,12>>, <<1,6,11,12, 5,10, 16,12>>, <<2,7,8,13, 4,0, 16,12>>, <<3,4,9,14, 15,8, 16,12>>,
  <<2,7,8,13, 0,4, 8,7>>, <<3,4,9,14, 8,15, 8,7>>, <<1,6,11,12, 10,5, 8,7>>, <<0,5,10,15, 6,2, 8,7>>
  >>

----------------------------------------------------------------------------
(* block: the compression function *)

(* AddMsg with the constant of the message word's own index *)
AddMsgSameIndex(v, m, r) ==
  [v EXCEPT ![r[1] + 1] =
     AddW(AddW(v[r[1] + 1], XorW(m[r[5] + 1], cst[r[5] + 1])), v[r[2] + 1])]

(* The seven statements of one row r of Rounds, on v0..v15 (kept as
   v[1..16]) and m[0..15] (kept as m[1..16]):
     va += m[i] ^ cst_j;  va += vb *)
AddMsg(v, m, r) ==
  [v EXCEPT ![r[1] + 1] =
     AddW(AddW(v[r[1] + 1], XorW(m[r[5] + 1], cst[r[6] + 1])), v[r[2] + 1])]

(*   vd ^= va;  vd = vd<<(32-r1) | vd>>r1 *)
MixD(v, r) ==
  [v EXCEPT ![r[4] + 1] = RotR(XorW(v[r[4] + 1], v[r[1] + 1]), r[7])]

(*   vc += vd *)
AddC(v, r) == [v EXCEPT ![r[3] + 1] = AddW(v[r[3] + 1], v[r[4] + 1])]

(*   vb ^= vc;  vb = vb<<(32-r2) | vb>>r2 *)
MixB(v, r) ==
  [v EXCEPT ![r[2] + 1] = RotR(XorW(v[r[2] + 1], v[r[3] + 1]), r[8])]

HalfG(v, m, r) ==
  Only({MixB(v3, r) : v3 \in {AddC(v2, r) : v2 \in
          {MixD(v1, r) : v1 \in {AddMsg(v, m, r)}}}})

(* The statements of rows lo..hi of Rounds applied in source order.  The
   range is halved to keep the evaluation shallow. *)
RECURSIVE RunRounds(_, _, _, _)
RunRounds(v, m, lo, hi) ==
  IF lo = hi THEN Only({HalfG(v, m, r) : r \in {Rounds[lo]}})
  ELSE Only({RunRounds(w, m, ((lo + hi) \div 2) + 1, hi) :
               w \in {RunRounds(v, m, lo, (lo + hi) \div 2)}})

(* v0..v15 as set up before round 1; t is d.t after d.t += 512 *)
InitV(h, s, t, nullt) ==
  LET c12 == IF nullt THEN cst[5] ELSE XorW(cst[5], Lo32(t))
      c13 == IF nullt THEN cst[6] ELSE XorW(cst[6], Lo32(t))
      c14 == IF nullt THEN cst[7] ELSE XorW(cst[7], Hi32(t))
      c15 == IF nullt THEN cst[8] ELSE XorW(cst[8], Hi32(t))
  IN  h \o <<XorW(cst[1], s[1]), XorW(cst[2], s[2]),
             XorW(cst[3], s[3]), XorW(cst[4], s[4]), c12, c13, c14, c15>>

(* h_k ^= v_k ^ v_(k+8) ^ s_(k mod 4), k counted from 0 *)
FinishW(h, s, v, k) ==
  XorW(h[k + 1], XorW(XorW(v[k + 1], v[k + 9]), s[(k % 4) + 1]))

(* h0..h7 after the final XOR of one loop iteration *)
Finish(h, s, v) ==
  <<FinishW(h, s, v, 0), FinishW(h, s, v, 1), FinishW(h, s, v, 2),
    FinishW(h, s, v, 3), FinishW(h, s, v, 4), FinishW(h, s, v, 5),
    FinishW(h, s, v, 6), FinishW(h, s, v, 7)>>

(* m[0..15], the block as sixteen big-endian words *)
Words(p) ==
  <<BE32(p, 0), BE32(p, 4), BE32(p, 8), BE32(p, 12),
    BE32(p, 16), BE32(p, 20), BE32(p, 24), BE32(p, 28),
    BE32(p, 32), BE32(p, 36), BE32(p, 40), BE32(p, 44),
    BE32(p, 48), BE32(p, 52), BE32(p, 56), BE32(p, 60)>>

(* Compress with Round 1 to Round 10 only *)
CompressTenRounds(h, s, t, nullt, p) ==
  Only({Finish(h, s, v) :
          v \in {RunRounds(v0, m, 1, 160) :
                   v0 \in {InitV(h, s, t, nullt)}, m \in {Words(p)}}})

(* One iteration of the loop of block on the first 64 bytes of p; t is d.t
   after d.t += 512 *)
Compress(h, s, t, nullt, p) ==
  Only({Finish(h, s, v) :
          v \in {RunRounds(v0, m, 1, Len(Rounds)) :
                   v0 \in {InitV(h, s, t, nullt)}, m \in {Words(p)}}})

(* The loop of block; log is the record kept of every block compressed:
   the 64 bytes, the counter and the flag the compression reads, the
   buffered count of the instance at that moment, and the chain value
   before (hin) and after (hout) *)
RECURSIVE blockLoop(_, _, _, _, _, _, _)
blockLoop(h, s, t, nullt, nx, log, p) ==
  IF Len(p) >= BlockSize
  THEN Only({blockLoop(h1, s, Add64(t, 512), nullt, nx,
                       Append(log, [p |-> SubSeq(p, 1, BlockSize),
                                    t |-> Add64(t, 512),
                                    nullt |-> nullt, nx |-> nx,
                                    hin |-> h, hout |-> h1]),
                       SubSeq(p, BlockSize + 1, Len(p))) :
               h1 \in {Compress(h, s, Add64(t, 512), nullt, p)}})
  ELSE [h |-> h, t |-> t, log |-> log]

(* block with d.t += 512 once for the call, not once for each block *)
blockCountCalls(d, p) ==
  Only({[d EXCEPT !.h = r.h,
                  !.t = IF Len(p) >= BlockSize THEN Add64(d.t, 512) ELSE d.t,
                  !.log = r.log] :
          r \in {blockLoop(d.h, d.s, d.t, d.nullt, d.nx, d.log, p)}})

(* block(d, p): the instance afterwards *)
block(d, p) ==
  Only({[d EXCEPT !.h = r.h, !.t = r.t, !.log = r.log] :
          r \in {blockLoop(d.h, d.s, d.t, d.nullt, d.nx, d.log, p)}})

----------------------------------------------------------------------------
(* The digest type and its methods.  A digest is a record of the fields of
   the struct, plus two fields the struct does not have: log, the blocks
   compressed since construction or Reset, and fault, set when a slice
   expression or an index of the Go code is out of range (a run-time
   panic). *)

ZeroW == <<0, 0>>

(* var d digest *)
ZeroDigest ==
  [hashSize |-> 0,
   h        |-> <<ZeroW, ZeroW, ZeroW, ZeroW, ZeroW, ZeroW, ZeroW, ZeroW>>,
   s        |-> <<ZeroW, ZeroW, ZeroW, ZeroW>>,
   t        |-> Zero64,
   nullt    |-> FALSE,
   x        |-> Zeros(BlockSize),
   nx       |-> 0,
   log      |-> <<>>,
   fault    |-> FALSE]

(* s[lo:hi] is legal *)
InRange(s, lo, hi) == 0 <= lo /\ lo <= hi /\ hi <= Len(s)

(* s[lo:hi], bytes lo..hi-1 counted from 0 *)
Slice(s, lo, hi) == IF InRange(s, lo, hi) THEN SubSeq(s, lo + 1, hi) ELSE <<>>

(* copy(x[off:], p): the number of bytes copied and the array afterwards *)
copyN(x, off, p) == Min(Len(x) - off, Len(p))

copy(x, off, p) ==
  SubSeq(x, 1, off) \o SubSeq(p, 1, copyN(x, off, p))
    \o SubSeq(x, off + copyN(x, off, p) + 1, Len(x))

(* Reset without d.nx = 0 *)
ResetKeepNx(d) ==
  [d EXCEPT !.h = IF d.hashSize = 224 THEN iv224 ELSE iv256,
            !.t = Zero64,
            !.nullt = FALSE,
            !.log = <<>>]

(* Reset without the test of d.hashSize *)
ResetWide(d) ==
  [d EXCEPT !.h = iv256, !.t = Zero64, !.nx = 0, !.nullt = FALSE, !.log = <<>>]

Reset(d) ==
  [d EXCEPT !.h = IF d.hashSize = 224 THEN iv224 ELSE iv256,
            !.t = Zero64,
            !.nx = 0,
            !.nullt = FALSE,
            !.log = <<>>]

(* d.hashSize >> 3 *)
SizeOf(d) == d.hashSize \div 8

(* WriteBuffered without d.nx = 0 after block(d, d.x[:]) *)
WriteBufferedKeepNx(d, p) ==
  IF d.nx > 0
  THEN LET n == IF Len(p) > BlockSize - d.nx THEN BlockSize - d.nx
                ELSE Len(p)
       IN  Only({[d |-> IF d1.nx = BlockSize THEN block(d1, d1.x) ELSE d1,
                  p |-> Slice(p, n, Len(p))] :
                   d1 \in {[d EXCEPT !.x = copy(d.x, d.nx, p),
                                     !.nx = d.nx + copyN(d.x, d.nx, p)]}})
  ELSE [d |-> d, p |-> p]

(* WriteBuffered without p = p[n:]: the bytes copied into the buffer are
   left in p *)
WriteBufferedKeepP(d, p) ==
  IF d.nx > 0
  THEN Only({[d |-> IF d1.nx = BlockSize
                    THEN [block(d1, d1.x) EXCEPT !.nx = 0]
                    ELSE d1,
              p |-> p] :
               d1 \in {[d EXCEPT !.x = copy(d.x, d.nx, p),
                                 !.nx = d.nx + copyN(d.x, d.nx, p)]}})
  ELSE [d |-> d, p |-> p]

(* The if d.nx > 0 part of Write: the instance and the rest of p *)
WriteBuffered(d, p) ==
  IF d.nx > 0
  THEN LET n  == IF Len(p) > BlockSize - d.nx THEN BlockSize - d.nx
                 ELSE Len(p)
           ok == InRange(d.x, d.nx, BlockSize) /\ InRange(p, n, Len(p))
       IN  Only({[d |-> IF d1.nx = BlockSize
                        THEN [block(d1, d1.x) EXCEPT !.nx = 0]
                        ELSE d1,
                  p |-> Slice(p, n, Len(p))] :
                   d1 \in {[d EXCEPT !.x = copy(d.x, d.nx, p),
                                     !.nx = d.nx + copyN(d.x, d.nx, p),
                                     !.fault = d.fault \/ ~ok]}})
  ELSE [d |-> d, p |-> p]

(* The if len(p) >= BlockSize part of Write *)
WriteBlocks(d, p) ==
  IF Len(p) >= BlockSize
  THEN [d |-> block(d, Slice(p, 0, Len(p) - (Len(p) % BlockSize))),
        p |-> Slice(p, Len(p) - (Len(p) % BlockSize), Len(p))]
  ELSE [d |-> d, p |-> p]

(* The if len(p) > 0 part of Write *)
WriteTail(d, p) ==
  IF Len(p) > 0
  THEN [d EXCEPT !.x = copy(d.x, 0, p), !.nx = copyN(d.x, 0, p)]
  ELSE d

(* d.Write(p): nn = len(p), the count returned; err stays nil *)
WriteNN(p) == Len(p)

(* d.Write(p): the instance afterwards *)
Write(d, p) ==
  Only({WriteTail(b.d, b.p) :
          b \in {WriteBlocks(a.d, a.p) : a \in {WriteBuffered(d, p)}}})

(* PadOne without the test of d.hashSize *)
PadOneMarker(d) == Write([d EXCEPT !.t = Sub64(d.t, 8)], <<128>>)

(* checkSum, the if nx == 55 branch *)
PadOne(d) ==
  Write([d EXCEPT !.t = Sub64(d.t, 8)],
        IF d.hashSize = 224 THEN <<128>> ELSE <<129>>)

(* PadFill without if nx == 0 { d.nullt = true } *)
PadFillCounted(d) ==
  Write([d EXCEPT !.t = Sub64(d.t, 440 - d.nx * 8),
                  !.fault = d.fault \/ ~InRange(pad, 0, 55 - d.nx)],
        Slice(pad, 0, 55 - d.nx))

(* checkSum, the if nx < 55 branch up to d.Write(pad[0 : 55-nx]) *)
PadFill(d) ==
  Write([d EXCEPT !.nullt = IF d.nx = 0 THEN TRUE ELSE d.nullt,
                  !.t = Sub64(d.t, 440 - d.nx * 8),
                  !.fault = d.fault \/ ~InRange(pad, 0, 55 - d.nx)],
        Slice(pad, 0, 55 - d.nx))

(* PadTwo with d.Write(pad[0:55]) as its second Write *)
PadTwoMarkerTwice(d) ==
  Only({[d2 EXCEPT !.nullt = TRUE] :
          d2 \in {Write([d1 EXCEPT !.t = Sub64(d1.t, 440)], Slice(pad, 0, 55)) :
                   d1 \in {Write([d EXCEPT !.t = Sub64(d.t, 512 - d.nx * 8)],
                                 Slice(pad, 0, 64 - d.nx))}}})

(* PadTwo without d.t -= 440 *)
PadTwoNoAdjust(d) ==
  Only({[d2 EXCEPT !.nullt = TRUE] :
          d2 \in {Write(d1, Slice(pad, 1, 56)) :
                   d1 \in {Write([d EXCEPT !.t = Sub64(d.t, 512 - d.nx * 8)],
                                 Slice(pad, 0, 64 - d.nx))}}})

(* checkSum, the two-compression branch up to d.nullt = true *)
PadTwo(d) ==
  Only({[d2 EXCEPT !.nullt = TRUE] :
          d2 \in {Write([d1 EXCEPT !.t = Sub64(d1.t, 440)], Slice(pad, 1, 56)) :
                   d1 \in {Write([d EXCEPT
                                    !.t = Sub64(d.t, 512 - d.nx * 8),
                                    !.fault = d.fault
                                                \/ ~InRange(pad, 0, 64 - d.nx)],
                                 Slice(pad, 0, 64 - d.nx))}}})

(* PadGeneral without the two-compression branch *)
PadGeneralOneBlock(d) ==
  Only({[d2 EXCEPT !.t = Sub64(d2.t, 8)] :
          d2 \in {Write(d1, IF d1.hashSize = 224 THEN <<0>> ELSE <<1>>) :
                   d1 \in {PadFill(d)}}})

(* PadGeneral without the nx < 55 branch *)
PadGeneralTwoBlocks(d) ==
  Only({[d2 EXCEPT !.t = Sub64(d2.t, 8)] :
          d2 \in {Write(d1, IF d1.hashSize = 224 THEN <<0>> ELSE <<1>>) :
                   d1 \in {PadTwo(d)}}})

(* checkSum, the else branch: padding, the byte 0x00 or 0x01, d.t -= 8 *)
PadGeneral(d) ==
  Only({[d2 EXCEPT !.t = Sub64(d2.t, 8)] :
          d2 \in {Write(d1, IF d1.hashSize = 224 THEN <<0>> ELSE <<1>>) :
                   d1 \in {IF d.nx < 55 THEN PadFill(d) ELSE PadTwo(d)}}})

(* The bytes out[j+0..j+3] written for the words hs[i], hs[i+1], ... *)
RECURSIVE OutBytes(_, _)
OutBytes(hs, i) ==
  IF i > Len(hs) THEN <<>> ELSE WordBytes(hs[i]) \o OutBytes(hs, i + 1)

(* checkSum, the loop over d.h[:d.hashSize>>5] filling out *)
Serialize(d) ==
  LET n  == d.hashSize \div 32
      hs == Slice(d.h, 0, n)
  IN  [d   |-> [d EXCEPT !.fault = d.fault \/ ~InRange(d.h, 0, n)
                                     \/ 4 * n > Size],
       out |-> OutBytes(hs, 1) \o Zeros(Size - 4 * Len(hs))]

(* checkSum with l := d.t, the bits compressed so far *)
checkSumCompressedLength(d) ==
  Only({[pre |-> d, d |-> r.d, out |-> r.out] :
          r \in {Serialize(d2) :
                   d2 \in {Write([d1 EXCEPT !.t = Sub64(d1.t, 64)], len) :
                            d1 \in {IF d.nx = 55 THEN PadOne(d)
                                     ELSE PadGeneral(d)},
                            len \in {BE64(d.t)}}}})

(* checkSum with l := d.t + nx, the buffered bytes not turned into bits *)
checkSumByteLength(d) ==
  Only({[pre |-> d, d |-> r.d, out |-> r.out] :
          r \in {Serialize(d2) :
                   d2 \in {Write([d1 EXCEPT !.t = Sub64(d1.t, 64)], len) :
                            d1 \in {IF d.nx = 55 THEN PadOne(d)
                                     ELSE PadGeneral(d)},
                            len \in {BE64(Add64(d.t, d.nx))}}}})

(* d.checkSum(): the digest as the call starts (pre), the digest afterwards
   and the [Size]byte returned.  len is the length field, taken from d.t
   and d.nx before any padding. *)
checkSum(d) ==
  Only({[pre |-> d, d |-> r.d, out |-> r.out] :
          r \in {Serialize(d2) :
                   d2 \in {Write([d1 EXCEPT !.t = Sub64(d1.t, 64)], len) :
                            d1 \in {IF d.nx = 55 THEN PadOne(d)
                                     ELSE PadGeneral(d)},
                            len \in {BE64(Add64(d.t, d.nx * 8))}}}})

(* SumOut without the test of d.Size() *)
SumOutWhole(r, in) == in \o r.out

(* The slice Sum returns once checkSum has returned r *)
SumOut(r, in) ==
  IF SizeOf(r.d) = Size224 THEN in \o Slice(r.out, 0, Size224)
  ELSE in \o r.out

(* d.Sum(in), d being the copy the value receiver makes: the copy after
   checkSum and the slice returned *)
Sum(d, in) == Only({[d |-> r.d, out |-> SumOut(r, in)] : r \in {checkSum(d)}})

(* setSalt without the length test: a short salt is padded with zero
   bytes and a long one truncated *)
setSaltAnyLen(d, s) ==
  [d EXCEPT !.s = <<BE32(SubSeq(s \o Zeros(16), 1, 16), 0),
                    BE32(SubSeq(s \o Zeros(16), 1, 16), 4),
                    BE32(SubSeq(s \o Zeros(16), 1, 16), 8),
                    BE32(SubSeq(s \o Zeros(16), 1, 16), 12)>>]

(* setSalt storing the complement of each salt word *)
setSaltComplement(d, s) ==
  IF Len(s) # 16 THEN [d EXCEPT !.fault = TRUE]
  ELSE [d EXCEPT !.s = <<XorW(BE32(s, 0), <<65535, 65535>>),
                         XorW(BE32(s, 4), <<65535, 65535>>),
                         XorW(BE32(s, 8), <<65535, 65535>>),
                         XorW(BE32(s, 12), <<65535, 65535>>)>>]

(* d.setSalt(s); fault stands for panic("salt length must be 16 bytes") *)
setSalt(d, s) ==
  IF Len(s) # 16 THEN [d EXCEPT !.fault = TRUE]
  ELSE [d EXCEPT !.s = <<BE32(s, 0), BE32(s, 4), BE32(s, 8), BE32(s, 12)>>]

New == [ZeroDigest EXCEPT !.hashSize = 256, !.h = iv256]

NewSalt(salt) == setSalt([ZeroDigest EXCEPT !.hashSize = 256, !.h = iv256], salt)

New224 == [ZeroDigest EXCEPT !.hashSize = 224, !.h = iv224]

New224Salt(salt) ==
  setSalt([ZeroDigest EXCEPT !.hashSize = 224, !.h = iv224], salt)

(* Sum256(data): the local digest before and after checkSum and the array
   returned *)
Sum256(data) ==
  Only({checkSum(d) :
          d \in {Write(Reset([ZeroDigest EXCEPT !.hashSize = 256]), data)}})

(* Sum224(data): the local digest before and after checkSum and the 28
   bytes returned *)
Sum224(data) ==
  Only({[pre |-> r.pre, d |-> r.d, out |-> Slice(r.out, 0, Size224)] :
          r \in {checkSum(d) :
                   d \in {Write(Reset([ZeroDigest EXCEPT !.hashSize = 224]),
                                data)}}})

----------------------------------------------------------------------------
(* Bounds and inputs *)

(* Write calls made on one instance *)
MaxWrites == 2

(* len(p) of the chunks written *)
ChunkLens == {0, 1, 55, 128}

(* len(data) of the one-shot calls *)
OneShotLens == {0, 1, 54, 55, 56, 63, 64, 120}

(* The stream the caller hashes: byte i (from 1) is (96 + i) mod 256, so
   byte 1 is "a" and byte 32 is 0x80 *)
StreamLen == 1024

Stream == <<>> \o [i \in 1..StreamLen |-> (96 + i) % 256]

(* The n bytes of the stream after the first off *)
Chunk(off, n) == SubSeq(Stream, off + 1, off + n)

(* Salt arguments: lengths 0, 15, 16 and 17, all zero or patterned *)
SaltArgs ==
  {<<>> \o [i \in 1..n |-> (k * i) % 256] : n \in {0, 15, 16, 17}, k \in {0, 17}}

(* The in arguments of Sum *)
SumArgs == {<<>>, <<222, 173>>}

----------------------------------------------------------------------------
(* The caller: one instance d at a time, and the package-level functions *)

VARIABLES
  d,         (* the caller's instance; ZeroDigest while there is none *)
  ctor,      (* the constructor that returned d and its salt argument *)
  call,      (* the last call made *)
  panicked,  (* the last call panicked *)
  msg,       (* the bytes written to d since construction or Reset *)
  off,       (* the bytes written to d since construction *)
  writes,    (* the Write calls made on d *)
  arg,       (* the slice argument of the last call *)
  nn,        (* the count returned by the last Write *)
  out,       (* the bytes returned by the last Sum, Sum256 or Sum224 *)
  pre,       (* the digest the last Sum, Sum256 or Sum224 started from *)
  cp,        (* the same digest once finalized *)
  sumAt      (* len(msg) when Sum was called just before a Write, -1 if the
                last Write did not follow a Sum *)

vars ==
  <<d, ctor, call, panicked, msg, off, writes, arg, nn, out, pre, cp, sumAt>>

NoCtor == [fn |-> "none", salt |-> <<>>]

Live == ctor.fn # "none" /\ ~panicked

Init ==
  /\ d = ZeroDigest
  /\ ctor = NoCtor
  /\ call = "none"
  /\ panicked = FALSE
  /\ msg = <<>>
  /\ off = 0
  /\ writes = 0
  /\ arg = <<>>
  /\ nn = 0
  /\ out = <<>>
  /\ pre = ZeroDigest
  /\ cp = ZeroDigest
  /\ sumAt = -1

(* A constructor fn called with salt returns r, or panics *)
Construct(fn, salt, r) ==
  /\ ctor.fn = "none"
  /\ d' = IF r.fault THEN ZeroDigest ELSE r
  /\ ctor' = IF r.fault THEN NoCtor ELSE [fn |-> fn, salt |-> salt]
  /\ call' = fn
  /\ panicked' = r.fault
  /\ msg' = <<>>
  /\ off' = 0
  /\ writes' = 0
  /\ arg' = salt
  /\ nn' = 0
  /\ out' = <<>>
  /\ pre' = ZeroDigest
  /\ cp' = ZeroDigest
  /\ sumAt' = -1

DoNew == Construct("New", <<>>, New)

DoNew224 == Construct("New224", <<>>, New224)

DoNewSalt == \E salt \in SaltArgs : Construct("NewSalt", salt, NewSalt(salt))

DoNew224Salt ==
  \E salt \in SaltArgs : Construct("New224Salt", salt, New224Salt(salt))

DoWrite ==
  /\ Live
  /\ writes < MaxWrites
  /\ \E n \in ChunkLens :
       \E r \in {Write(d, Chunk(off, n))} :
         /\ d' = r
         /\ panicked' = r.fault
         /\ msg' = msg \o Chunk(off, n)
         /\ off' = off + n
         /\ arg' = Chunk(off, n)
         /\ nn' = WriteNN(Chunk(off, n))
  /\ writes' = writes + 1
  /\ call' = "Write"
  /\ out' = <<>>
  /\ pre' = ZeroDigest
  /\ cp' = ZeroDigest
  /\ sumAt' = IF call = "Sum" THEN Len(msg) ELSE -1
  /\ UNCHANGED ctor

(* Sum with a pointer receiver: checkSum works on d itself *)
DoSumPointer ==
  /\ Live
  /\ \E r \in {checkSum(d)} :
       /\ pre' = r.pre
       /\ cp' = r.d
       /\ d' = r.d
       /\ panicked' = r.d.fault
       /\ \E in \in SumArgs :
            /\ arg' = in
            /\ out' = SumOut(r, in)
  /\ call' = "Sum"
  /\ nn' = 0
  /\ UNCHANGED <<ctor, msg, off, writes, sumAt>>

(* Sum has a value receiver: checkSum works on a copy of d, r is what it
   returns *)
DoSum ==
  /\ Live
  /\ \E r \in {checkSum(d)} :
       /\ pre' = r.pre
       /\ cp' = r.d
       /\ panicked' = r.d.fault
       /\ \E in \in SumArgs :
            /\ arg' = in
            /\ out' = SumOut(r, in)
  /\ call' = "Sum"
  /\ nn' = 0
  /\ UNCHANGED <<d, ctor, msg, off, writes, sumAt>>

DoReset ==
  /\ Live
  /\ d' = Reset(d)
  /\ msg' = <<>>
  /\ call' = "Reset"
  /\ arg' = <<>>
  /\ nn' = 0
  /\ out' = <<>>
  /\ pre' = ZeroDigest
  /\ cp' = ZeroDigest
  /\ sumAt' = -1
  /\ UNCHANGED <<ctor, panicked, off, writes>>

(* The package-level one-shot functions use no instance; r is the local
   digest afterwards and the array returned *)
OneShot(fn, data, r) ==
  /\ ctor.fn = "none"
  /\ pre' = r.pre
  /\ cp' = r.d
  /\ out' = r.out
  /\ panicked' = r.d.fault
  /\ arg' = data
  /\ call' = fn
  /\ nn' = 0
  /\ UNCHANGED <<d, ctor, msg, off, writes, sumAt>>

DoSum256 ==
  \E n \in OneShotLens :
    \E r \in {Sum256(Chunk(0, n))} : OneShot("Sum256", Chunk(0, n), r)

DoSum224 ==
  \E n \in OneShotLens :
    \E r \in {Sum224(Chunk(0, n))} : OneShot("Sum224", Chunk(0, n), r)

Next ==
  \/ DoNew
  \/ DoNew224
  \/ DoNewSalt
  \/ DoNew224Salt
  \/ DoWrite
  \/ DoSum
  \/ DoReset
  \/ DoSum256
  \/ DoSum224

Spec == Init /\ [][Next]_vars


----------------------------------------------------------------------------
(* Properties *)

(* The instance the constructor c.fn returns for the salt c.salt *)
Fresh(c) ==
  CASE c.fn = "New" -> New
    [] c.fn = "New224" -> New224
    [] c.fn = "NewSalt" -> NewSalt(c.salt)
    [] c.fn = "New224Salt" -> New224Salt(c.salt)
    [] OTHER -> ZeroDigest

(* The constructor of the same width that takes no salt *)
Unsalted(c) ==
  [fn |-> IF c.fn \in {"New", "NewSalt"} THEN "New" ELSE "New224",
   salt |-> <<>>]

(* Size() of the instances the constructor c.fn returns *)
Width(c) == IF c.fn \in {"New", "NewSalt"} THEN Size ELSE Size224

(* A fresh instance of constructor c fed m in a single Write, then Sum(nil) *)
OneWrite(c, m) == Sum(Write(Fresh(c), m), <<>>)

(* The bytes the last Sum appended to its argument *)
DigestPart == SubSeq(out, Len(arg) + 1, Len(out))

(* The (block, counter, skip flag) triples handed to the compression *)
Triples(log) ==
  [i \in 1..Len(log) |-> <<log[i].p, log[i].t, log[i].nullt>>]

(* C1: chunking invariance.  When Sum returns on an instance fed the bytes
   msg by any sequence of Write calls (chunks of length 0, 1, 55 or 128),
   its digest is the digest of an instance of the same constructor and salt
   fed msg in a single Write, and the blocks, counter values and skip flags
   handed to the compression function are the same for both. *)
ChunkingInvariance ==
  (call = "Sum" /\ off = Len(msg)) =>
    \A ref \in {OneWrite(ctor, msg)} :
      /\ DigestPart = ref.out
      /\ Triples(cp.log) = Triples(ref.d.log)

(* Sum has returned after two Write calls of 55 and 128 bytes in either
   order: one chunk crossed the buffer and three blocks were compressed *)
ChunkedSumReached ==
  /\ call = "Sum"
  /\ writes = 2
  /\ off = Len(msg)
  /\ Len(msg) = 183
  /\ Len(cp.log) = 3

(* C2: Sum does not change the instance it is called on: h, t, nullt, x,
   nx, s and hashSize of the caller's instance are the same after the call
   as before.  Two consecutive Sum calls return the same digest, and a Sum
   after Write(a); Sum; Write(b) returns the digest of a followed by b. *)
SumLeavesInstance ==
  [][call' = "Sum" =>
       /\ d'.h = d.h /\ d'.t = d.t /\ d'.nullt = d.nullt /\ d'.x = d.x
       /\ d'.nx = d.nx /\ d'.s = d.s /\ d'.hashSize = d.hashSize
       /\ (call = "Sum" => DigestPart' = DigestPart)
       /\ (sumAt' >= 0 =>
             \A ref \in {OneWrite(ctor', msg')} : DigestPart' = ref.out)]_vars

(* Sum has returned after Write(a); Sum; Write(b) with a and b not empty,
   and the copy it finalized differs from the instance *)
SumAfterSumReached ==
  /\ call = "Sum"
  /\ sumAt > 0
  /\ Len(msg) > sumAt
  /\ cp.h # d.h
  /\ cp.nx # d.nx

(* C3: one-shot equivalence.  Sum256(data) is the 32 bytes New(),
   Write(data), Sum(nil) return, and Sum224(data) is the 28 bytes New224(),
   Write(data), Sum(nil) return. *)
OneShotEquivalence ==
  /\ call = "Sum256" =>
       \A ref \in {Sum(Write(New, arg), <<>>)} :
         out = ref.out /\ Len(out) = Size
  /\ call = "Sum224" =>
       \A ref \in {Sum(Write(New224, arg), <<>>)} :
         out = ref.out /\ Len(out) = Size224

(* Sum224 has returned for a 64-byte input *)
OneShotReached == call = "Sum224" /\ Len(arg) = 64 /\ Len(out) = Size224

(* C4: salt length check.  NewSalt and New224Salt panic exactly when the
   salt is not 16 bytes long and then return no instance; with 16 bytes the
   instance they return has as salt words the four big-endian 32-bit words
   of the argument. *)
SaltLengthCheck ==
  call \in {"NewSalt", "New224Salt"} =>
    /\ panicked <=> Len(arg) # 16
    /\ panicked => ctor = NoCtor /\ d = ZeroDigest
    /\ ~panicked =>
         /\ ctor = [fn |-> call, salt |-> arg]
         /\ \A k \in 0..3 :
              d.s[k + 1] = <<256 * arg[4 * k + 1] + arg[4 * k + 2],
                             256 * arg[4 * k + 3] + arg[4 * k + 4]>>

(* NewSalt has panicked on a salt of 17 bytes that are not all zero *)
SaltPanicReached ==
  call = "NewSalt" /\ panicked /\ Len(arg) = 17 /\ arg[17] # 0

(* C5: Reset sets h to the initial constants of the width, t and nx to 0 and
   nullt to false, and leaves s, hashSize and x alone; a digest computed
   after Reset is the digest a fresh instance of the same constructor and
   salt gives on the bytes written since, whatever was written before. *)
ResetRestores ==
  [][/\ call' = "Reset" =>
          /\ d'.h = IF Width(ctor) = Size224 THEN iv224 ELSE iv256
          /\ d'.t = Zero64 /\ d'.nx = 0 /\ d'.nullt = FALSE
          /\ d'.s = d.s /\ d'.hashSize = d.hashSize /\ d'.x = d.x
     /\ (call' = "Sum" /\ off' > Len(msg')) =>
          \A ref \in {OneWrite(ctor', msg')} : DigestPart' = ref.out]_vars

(* Sum has returned after a Write, a Reset and a one-byte Write, with bytes
   of the first Write still in x behind the buffered byte *)
SumAfterResetReached ==
  /\ call = "Sum"
  /\ off > Len(msg)
  /\ Len(msg) = 1
  /\ d.nx = 1
  /\ d.x[2] # 0

(* Byte k (0..3, most significant first) of the word w *)
ByteOf(w, k) ==
  CASE k = 0 -> w[1] \div 256
    [] k = 1 -> w[1] % 256
    [] k = 2 -> w[2] \div 256
    [] k = 3 -> w[2] % 256

(* C6: output width.  Sum(in) returns in followed by 32 bytes for an
   instance of New or NewSalt and by 28 bytes for one of New224 or
   New224Salt; these bytes are the big-endian bytes of the chain words 0..7
   or 0..6 of the finalized copy; Size() is 32 or 28 as long as the
   instance lives. *)
OutputWidth ==
  /\ ctor.fn # "none" => SizeOf(d) = Width(ctor)
  /\ call = "Sum" =>
       /\ Len(out) = Len(arg) + Width(ctor)
       /\ SubSeq(out, 1, Len(arg)) = arg
       /\ \A j \in 0..(Width(ctor) - 1) :
            DigestPart[j + 1] = ByteOf(cp.h[(j \div 4) + 1], j % 4)

(* Sum(in) with two bytes in has returned 30 bytes for a 224-bit instance *)
Sum224WidthReached ==
  /\ call = "Sum"
  /\ ctor.fn = "New224Salt"
  /\ Len(arg) = 2
  /\ Len(out) = 30
  /\ Len(msg) > 0

(* C7: zero salt is no salt.  An instance of NewSalt or New224Salt built
   with sixteen zero bytes returns the digest an instance of New or New224
   returns for the same bytes. *)
ZeroSaltIsNoSalt ==
  (call = "Sum" /\ ctor.fn \in {"NewSalt", "New224Salt"}
     /\ ctor.salt = Zeros(16)) =>
    \A ref \in {OneWrite(Unsalted(ctor), msg)} : DigestPart = ref.out

(* Sum has returned on an instance of NewSalt with sixteen zero bytes that
   was fed more than one block *)
ZeroSaltSumReached ==
  /\ call = "Sum"
  /\ ctor = [fn |-> "NewSalt", salt |-> Zeros(16)]
  /\ Len(msg) > BlockSize

(* C8: Write and Sum are total.  Write(p) returns len(p) and Sum returns a
   digest, neither panics nor takes a slice out of range; only NewSalt and
   New224Salt, on a salt of the wrong length, panic. *)
WriteSumTotal ==
  /\ call = "Write" => ~panicked /\ nn = Len(arg) /\ ~d.fault
  /\ call = "Sum" => ~panicked /\ ~cp.fault /\ Len(DigestPart) = Width(ctor)
  /\ call \in {"Sum256", "Sum224"} => ~panicked /\ ~cp.fault
  /\ panicked => call \in {"NewSalt", "New224Salt"} /\ Len(arg) # 16

(* An empty Write has returned on an instance with 55 bytes buffered *)
EmptyWriteReached ==
  /\ call = "Write"
  /\ arg = <<>>
  /\ nn = 0
  /\ writes = 2
  /\ d.nx = 55

(* C9: the empty input.  Sum256 of no bytes is 716f6e86 3f744b9a c22c97ec
   7b76ea5f 5908bc5b 2f67c615 10bfc475 1384ea7a and Sum224 of no bytes is
   7dc5313b 1c04512a 174bd650 3b89607a ecbee090 3d40a8a5 69c94eed. *)
EmptyInputVector ==
  /\ (call = "Sum256" /\ arg = <<>>) =>
       out = <<113, 111, 110, 134, 63, 116, 75, 154, 194, 44, 151, 236,
               123, 118, 234, 95, 89, 8, 188, 91, 47, 103, 198, 21,
               16, 191, 196, 117, 19, 132, 234, 122>>
  /\ (call = "Sum224" /\ arg = <<>>) =>
       out = <<125, 197, 49, 59, 28, 4, 81, 42, 23, 75, 214, 80,
               59, 137, 96, 122, 236, 190, 224, 144, 61, 64, 168, 165,
               105, 201, 78, 237>>

(* Sum256 of no bytes has returned, after one compression *)
EmptyInputReached ==
  call = "Sum256" /\ arg = <<>> /\ Len(out) = Size /\ Len(cp.log) = 1

(* C10: buffer bound.  Between calls nx is in 0..63, on the instance and
   on the copy Sum finalized; nx is 64 only when Write compresses the full
   buffer, and 0 whenever it compresses blocks of p. *)
BufferBound ==
  /\ d.nx \in 0..(BlockSize - 1)
  /\ cp.nx \in 0..(BlockSize - 1)
  /\ \A i \in 1..Len(d.log) : d.log[i].nx \in {0, BlockSize}
  /\ \A i \in 1..Len(cp.log) : cp.log[i].nx \in {0, BlockSize}

(* A Write has filled and compressed the buffer, compressed a block of p
   and left bytes buffered *)
BufferFlushReached ==
  /\ call = "Write"
  /\ d.nx > 0
  /\ \E i \in 1..Len(d.log) : d.log[i].nx = BlockSize
  /\ \E i \in 1..Len(d.log) : d.log[i].nx = 0

(* The uint64 with the value n, for 0 <= n < 2^31 *)
U64(n) == <<0, 0, n \div 65536, n % 65536>>

(* The blocks of log one after the other *)
RECURSIVE Blocks(_, _)
Blocks(log, i) ==
  IF i > Len(log) THEN <<>> ELSE log[i].p \o Blocks(log, i + 1)

(* C11: counter accounting.  With n bytes written since construction or
   the last Reset, t is 512 * floor(n / 64), nx is n mod 64, floor(n / 64)
   blocks have been compressed, the i-th after the i-th increment of t by
   512; the blocks compressed are the first t / 8 bytes written and
   t + 8 * nx is the number of bits written. *)
CounterAccounting ==
  ctor.fn # "none" =>
    /\ d.t = U64(512 * (Len(msg) \div BlockSize))
    /\ d.nx = Len(msg) % BlockSize
    /\ Len(d.log) = Len(msg) \div BlockSize
    /\ \A i \in 1..Len(d.log) : d.log[i].t = U64(512 * i)
    /\ Blocks(d.log, 1) = SubSeq(msg, 1, BlockSize * Len(d.log))
    /\ Add64(d.t, 8 * d.nx) = U64(8 * Len(msg))

(* Two Write calls of 55 and 128 bytes have returned: two blocks were
   compressed and 55 bytes are buffered *)
CountedWritesReached ==
  /\ call = "Write"
  /\ writes = 2
  /\ Len(msg) = 183
  /\ d.nx = 55
  /\ d.t = <<0, 0, 0, 1024>>

(* Sum, Sum256 or Sum224 has just returned *)
Finalized == call \in {"Sum", "Sum256", "Sum224"}

(* The bytes written to the digest the last call finalized *)
FinalMsg == IF call = "Sum" THEN msg ELSE arg

(* The compressions checkSum performed in the last call *)
FinalLog == SubSeq(cp.log, Len(pre.log) + 1, Len(cp.log))

(* C12: compressions in finalization.  checkSum compresses exactly one
   block when nx is in 0..55 as it starts and exactly two blocks when nx is
   in 56..63. *)
FinalCompressions ==
  Finalized =>
    /\ call = "Sum" => pre = d
    /\ pre.nx = Len(FinalMsg) % BlockSize
    /\ SubSeq(cp.log, 1, Len(pre.log)) = pre.log
    /\ pre.nx \in 0..55 => Len(FinalLog) = 1
    /\ pre.nx \in 56..63 => Len(FinalLog) = 2
    /\ Len(FinalLog) \in {1, 2}

(* Sum has returned on an instance with 56 bytes buffered after two
   compressions *)
TwoCompressionsReached ==
  call = "Sum" /\ pre.nx = 56 /\ Len(cp.log) = Len(pre.log) + 2

(* The big-endian 8 bytes of n, for 0 <= n < 2^31 *)
Bytes8(n) ==
  <<0, 0, 0, 0, (n \div 16777216) % 256, (n \div 65536) % 256,
    (n \div 256) % 256, n % 256>>

(* The last 8 bytes of the last block checkSum compressed *)
LengthBytes == SubSeq(FinalLog[Len(FinalLog)].p, BlockSize - 7, BlockSize)

(* C13: length field.  In every finalization the last 8 bytes of the last
   block compressed are the big-endian 64-bit number of bits written since
   construction or the last Reset, in every padding branch. *)
LengthField ==
  Finalized =>
    /\ Len(FinalLog) >= 1
    /\ LengthBytes = Bytes8(8 * Len(FinalMsg))

(* Sum has returned on an instance fed 183 bytes, 55 of them buffered *)
LengthFieldReached ==
  /\ call = "Sum"
  /\ Len(msg) = 183
  /\ pre.nx = 55
  /\ LengthBytes = <<0, 0, 0, 0, 0, 0, 5, 184>>

(* C14 as stated: the length field holds the value the counter t had as
   finalization started, for every nx in 0..63. *)
LengthIsCounter == Finalized => LengthBytes = BE64(pre.t)

(* C14: the length field holds t + 8 * nx, with t and nx as they were when
   finalization started; it holds the value of t itself exactly when
   nx = 0. *)
LengthIsCounterPlusBuffered ==
  Finalized =>
    /\ LengthBytes = BE64(Add64(pre.t, 8 * pre.nx))
    /\ LengthBytes = BE64(pre.t) <=> pre.nx = 0

(* Sum256 has returned for 120 bytes: t was 512 and nx 56 as finalization
   started, and the length field holds 960 *)
LengthBeyondCounterReached ==
  /\ call = "Sum256"
  /\ pre.t = <<0, 0, 0, 512>>
  /\ pre.nx = 56
  /\ LengthBytes = <<0, 0, 0, 0, 0, 0, 3, 192>>

(* C15: counter at the finalization compressions.  Every compression of a
   finalization reads, after its own increment by 512, a counter equal to
   the number of bits written, in all three padding branches, the
   subtractions in between wrapping modulo 2^64. *)
FinalCounter ==
  Finalized =>
    \A i \in 1..Len(FinalLog) : FinalLog[i].t = U64(8 * Len(FinalMsg))

(* Sum has returned on an instance with t = 0 and nx = 0, where every
   subtraction wraps, and the one compression read the counter 0 *)
WrappedCounterReached ==
  /\ call = "Sum"
  /\ pre.t = Zero64
  /\ pre.nx = 0
  /\ Len(FinalLog) = 1
  /\ FinalLog[1].t = Zero64

(* C16: skip flag.  The last compression of a finalization leaves the
   counter out exactly when nx was 0 or in 56..63 as finalization started;
   with nx in 56..63 the first of the two compressions reads the counter.
   Every compression of a Write reads the counter, and nullt of the
   caller's instance is false between calls. *)
SkipFlag ==
  /\ d.nullt = FALSE
  /\ \A i \in 1..Len(d.log) : d.log[i].nullt = FALSE
  /\ Finalized =>
       /\ pre.nullt = FALSE
       /\ \A i \in 1..Len(pre.log) : cp.log[i].nullt = FALSE
       /\ FinalLog[Len(FinalLog)].nullt <=> (pre.nx = 0 \/ pre.nx \in 56..63)
       /\ pre.nx \in 56..63 => FinalLog[1].nullt = FALSE

(* Sum has returned on an instance fed 128 bytes, none buffered: Write
   compressed two blocks with the counter, finalization one without *)
SkipFlagReached ==
  /\ call = "Sum"
  /\ Len(msg) = 128
  /\ pre.nx = 0
  /\ Len(pre.log) = 2
  /\ FinalLog[1].nullt

(* The terminator byte of the width *)
Terminator(hashSize) == IF hashSize = 224 THEN 0 ELSE 1

(* C17 as stated: in the two-compression branch the 55 bytes fed after the
   completed block are 0x80 followed by 54 zero bytes. *)
SecondBlockStartsWithMarker ==
  (Finalized /\ pre.nx \in 56..63) =>
    SubSeq(FinalLog[2].p, 1, 55) = <<128>> \o Zeros(54)

(* C17: in the two-compression branch (nx in 56..63) the block in the
   buffer is completed with 0x80 and 63 - nx zero bytes and compressed;
   the 55 bytes fed next are all zero, and the terminator byte and the
   length field follow them. *)
SecondBlockAllZero ==
  (Finalized /\ pre.nx \in 56..63) =>
    /\ Len(FinalLog) = 2
    /\ FinalLog[1].p = SubSeq(pre.x, 1, pre.nx) \o <<128>>
                         \o Zeros(BlockSize - 1 - pre.nx)
    /\ SubSeq(FinalLog[2].p, 1, 55) = Zeros(55)
    /\ FinalLog[2].p[56] = Terminator(pre.hashSize)
    /\ SubSeq(FinalLog[2].p, 57, 64) = Bytes8(8 * Len(FinalMsg))

(* Sum224 has returned for 63 bytes: 0x80 is the last byte of the first
   block finalization compressed, and the second starts with a zero byte *)
SecondBlockReached ==
  /\ call = "Sum224"
  /\ pre.nx = 63
  /\ FinalLog[1].p[64] = 128
  /\ FinalLog[2].p[1] = 0

(* The padded message of the width hashSize for the message m *)
Padded(m, hashSize) ==
  IF Len(m) % BlockSize = 55
  THEN m \o <<128 + Terminator(hashSize)>> \o Bytes8(8 * Len(m))
  ELSE m \o <<128>>
         \o Zeros(IF Len(m) % BlockSize < 55 THEN 54 - (Len(m) % BlockSize)
                  ELSE 118 - (Len(m) % BlockSize))
         \o <<Terminator(hashSize)>> \o Bytes8(8 * Len(m))

(* C18: padded stream layout.  The blocks compressed by Write and by
   finalization, one after the other, are the message, the byte 0x80, zero
   bytes, the terminator byte (0x01 for 256 bits, 0x00 for 224) and the 8
   length bytes, as long as the smallest multiple of 64 that is at least
   n + 9; with n mod 64 = 55 the byte 0x80 and the terminator are the one
   byte 0x81 (256) or 0x80 (224). *)
PaddedLayout ==
  Finalized =>
    /\ Blocks(cp.log, 1) = Padded(FinalMsg, cp.hashSize)
    /\ Len(cp.log) = (Len(FinalMsg) + 9 + BlockSize - 1) \div BlockSize
    /\ cp.hashSize = IF call = "Sum" THEN 8 * Width(ctor)
                     ELSE IF call = "Sum256" THEN 256 ELSE 224

(* Sum256 has returned for 55 bytes: one block, its byte 56 is 0x81 *)
MarkerTerminatorReached ==
  /\ call = "Sum256"
  /\ Len(arg) = 55
  /\ Len(cp.log) = 1
  /\ cp.log[1].p[56] = 129

(* The ten permutations of BLAKE *)
Sigma ==
  << <<0, 1, 2, 3, 4, 5, 6, 7, 8, 9, 10, 11, 12, 13, 14, 15>>,
     <<14, 10, 4, 8, 9, 15, 13, 6, 1, 12, 0, 2, 11, 7, 5, 3>>,
     <<11, 8, 12, 0, 5, 2, 15, 13, 10, 14, 3, 6, 7, 1, 9, 4>>,
     <<7, 9, 3, 1, 13, 12, 11, 14, 2, 6, 5, 10, 4, 0, 15, 8>>,
     <<9, 0, 5, 7, 2, 4, 10, 15, 14, 1, 11, 12, 6, 8, 3, 13>>,
     <<2, 12, 6, 10, 0, 11, 8, 3, 4, 13, 7, 5, 15, 14, 1, 9>>,
     <<12, 5, 1, 15, 14, 13, 4, 10, 0, 7, 6, 3, 9, 2, 8, 11>>,
     <<13, 11, 7, 14, 12, 1, 3, 9, 5, 0, 15, 4, 8, 6, 2, 10>>,
     <<6, 15, 14, 9, 11, 3, 0, 8, 12, 2, 13, 7, 1, 4, 10, 5>>,
     <<10, 2, 8, 4, 7, 6, 1, 5, 15, 11, 9, 14, 3, 12, 13, 0>> >>

(* The words G works on: the four columns, then the four diagonals *)
GWords ==
  << <<0, 4, 8, 12>>, <<1, 5, 9, 13>>, <<2, 6, 10, 14>>, <<3, 7, 11, 15>>,
     <<0, 5, 10, 15>>, <<1, 6, 11, 12>>, <<2, 7, 8, 13>>, <<3, 4, 9, 14>> >>

(* Half of G on q = <<a, b, c, d>>: a += k + b, d = (d ^ a) >>> r1,
   c += d, b = (b ^ c) >>> r2 *)
RefHalf(q, k, r1, r2) ==
  Only({Only({Only({<<a, RotR(XorW(q[2], c), r2), c, dd>> :
                      c \in {AddW(q[3], dd)}}) :
                dd \in {RotR(XorW(q[4], a), r1)}}) :
          a \in {AddW(AddW(q[1], k), q[2])}})

(* G number g (1..8) of a round, on the message words x and y *)
RefG(v, m, g, x, y) ==
  Only({[v EXCEPT ![GWords[g][1] + 1] = q[1], ![GWords[g][2] + 1] = q[2],
                  ![GWords[g][3] + 1] = q[3], ![GWords[g][4] + 1] = q[4]] :
          q \in {RefHalf(q1, XorW(m[y + 1], cst[x + 1]), 8, 7) :
                  q1 \in {RefHalf(<<v[GWords[g][1] + 1], v[GWords[g][2] + 1],
                                    v[GWords[g][3] + 1], v[GWords[g][4] + 1]>>,
                                  XorW(m[x + 1], cst[y + 1]), 16, 12)}}})

(* G number g..8 of round r (1..14), which uses permutation (r - 1) mod 10 *)
RECURSIVE RefRound(_, _, _, _)
RefRound(v, m, r, g) ==
  IF g > 8 THEN v
  ELSE Only({RefRound(w, m, r, g + 1) :
               w \in {RefG(v, m, g, Sigma[((r - 1) % 10) + 1][2 * g - 1],
                           Sigma[((r - 1) % 10) + 1][2 * g])}})

(* Rounds lo..hi *)
RECURSIVE RefRounds(_, _, _, _)
RefRounds(v, m, lo, hi) ==
  IF lo > hi THEN v
  ELSE Only({RefRounds(w, m, lo + 1, hi) : w \in {RefRound(v, m, lo, 1)}})

(* The table-driven compression of the block p *)
RefCompress(h, s, t, nullt, p) ==
  Only({<<XorW(h[1], XorW(XorW(v[1], v[9]), s[1])),
          XorW(h[2], XorW(XorW(v[2], v[10]), s[2])),
          XorW(h[3], XorW(XorW(v[3], v[11]), s[3])),
          XorW(h[4], XorW(XorW(v[4], v[12]), s[4])),
          XorW(h[5], XorW(XorW(v[5], v[13]), s[1])),
          XorW(h[6], XorW(XorW(v[6], v[14]), s[2])),
          XorW(h[7], XorW(XorW(v[7], v[15]), s[3])),
          XorW(h[8], XorW(XorW(v[8], v[16]), s[4]))>> :
          v \in {RefRounds(
                   h \o <<XorW(cst[1], s[1]), XorW(cst[2], s[2]),
                          XorW(cst[3], s[3]), XorW(cst[4], s[4]),
                          IF nullt THEN cst[5]
                          ELSE XorW(cst[5], <<t[3], t[4]>>),
                          IF nullt THEN cst[6]
                          ELSE XorW(cst[6], <<t[3], t[4]>>),
                          IF nullt THEN cst[7]
                          ELSE XorW(cst[7], <<t[1], t[2]>>),
                          IF nullt THEN cst[8]
                          ELSE XorW(cst[8], <<t[1], t[2]>>)>>,
                   m, 1, 14) :
                 m \in {[i \in 1..16 |->
                          <<256 * p[4 * i - 3] + p[4 * i - 2],
                            256 * p[4 * i - 1] + p[4 * i]>>]}}})

(* C19: the unrolled compression of block() is the table-driven one.
   Every compression performed, by Write and by finalization, turns the
   chain value, salt, counter, skip flag and block it read into the chain
   value that 14 rounds of G on columns then diagonals with permutation
   (r - 1) mod 10, followed by h[k] ^= v[k] ^ v[k+8] ^ s[k mod 4], give. *)
UnrolledIsTableDriven ==
  /\ call = "Write" =>
       \A i \in 1..Len(d.log) :
         d.log[i].hout = RefCompress(d.log[i].hin, d.s, d.log[i].t,
                                     d.log[i].nullt, d.log[i].p)
  /\ Finalized =>
       \A i \in 1..Len(FinalLog) :
         FinalLog[i].hout = RefCompress(FinalLog[i].hin, cp.s, FinalLog[i].t,
                                        FinalLog[i].nullt, FinalLog[i].p)

(* Sum has returned on a salted instance fed 128 bytes: two compressions
   with the counter, then one without *)
SaltedCompressionsReached ==
  /\ call = "Sum"
  /\ ctor.fn = "NewSalt"
  /\ ctor.salt # Zeros(16)
  /\ Len(pre.log) = 2
  /\ Len(FinalLog) = 1
  /\ FinalLog[1].nullt
  /\ ~pre.log[2].nullt
====
